---------------------------- MODULE Spec2Model ----------------------------
(***************************************************************************)
(* The request pipeline of the etasker backend: the bearer-token gate of   *)
(* server/src/middleware/auth.ts, the zod schemas and the five route       *)
(* handlers of server/src/routes/tasks.ts, and the tasks table they read   *)
(* and write.  A handler is cut at its awaits: one step runs the           *)
(* middleware and the handler up to the first database statement, and one  *)
(* step per statement executes it and runs the handler on to its next      *)
(* await or to its response.  Statements are assumed to execute (no        *)
(* connection loss; the users and projects rows a task references exist).  *)
(***************************************************************************)
EXTENDS Integers, Sequences, FiniteSets, TLC

VARIABLES
    tasks,      \* the rows of the tasks table
    nextId,     \* the next value of the serial tasks.id
    now,        \* the clock behind defaultNow() and new Date()
    inflight,   \* requests suspended at an await: request number -> request
    received,   \* how many requests have arrived
    last,       \* the exchange completed most recently (request and response)
    creator,    \* history: task id -> identity id of the request that inserted it
    okDeletes   \* history: task id -> count of 'Task deleted successfully' replies

vars == <<tasks, nextId, now, inflight, received, last, creator, okDeletes>>

-----------------------------------------------------------------------------
(* Bounds of the model.                                                    *)

MaxReqs == 3

MaxAuthReqs == 2

MaxBodyReqs == 2
\* Requests received under SpecList.
MaxListReqs == 3
\* Requests received under SpecGate.
MaxGateReqs == 2
\* Requests received under SpecTwins.
MaxTwinReqs == 3

-----------------------------------------------------------------------------
(* Strings of the Authorization header.  A header is a sequence of symbols:*)
(* the space character, a word, or a JSON web token.                       *)

SP == [k |-> "sp"]

Word(w) == [k |-> "word", w |-> w]

Jwt(userId, role, sig, expired) ==
    [k |-> "jwt", userId |-> userId, role |-> role, sig |-> sig, expired |-> expired]

\* String.prototype.split(' '): the parts between the spaces, empty parts kept.
RECURSIVE SplitFrom(_, _, _)
SplitFrom(s, i, cur) ==
    IF i > Len(s) THEN <<cur>>
    ELSE IF s[i] = SP THEN <<cur>> \o SplitFrom(s, i + 1, <<>>)
    ELSE SplitFrom(s, i + 1, Append(cur, s[i]))

Split(s) == SplitFrom(s, 1, <<>>)

\* jwt.decode in place of jwt.verify: the signature and the expiry go unchecked.
JwtDecodeOnly(token) ==
    IF Len(token) # 1 \/ token[1].k # "jwt"
        THEN [ok |-> FALSE, error |-> "JsonWebTokenError"]
    ELSE [ok |-> TRUE, userId |-> token[1].userId, role |-> token[1].role]

\* jwt.verify(token, secret): the claims of a well-formed, unexpired token signed
\* with the server's secret; anything else throws an error of the
\* JsonWebTokenError family.
JwtVerify(token) ==
    IF Len(token) # 1 \/ token[1].k # "jwt"
        THEN [ok |-> FALSE, error |-> "JsonWebTokenError"]
    ELSE IF token[1].sig # "server"
        THEN [ok |-> FALSE, error |-> "JsonWebTokenError"]
    ELSE IF token[1].expired
        THEN [ok |-> FALSE, error |-> "TokenExpiredError"]
    ELSE [ok |-> TRUE, userId |-> token[1].userId, role |-> token[1].role]

\* error instanceof jwt.JsonWebTokenError (TokenExpiredError and NotBeforeError
\* extend it).
IsJsonWebTokenError(e) ==
    e \in {"JsonWebTokenError", "TokenExpiredError", "NotBeforeError"}

\* An optional value: undefined, or a value.
Undefined == [some |-> FALSE]

Some(v) == [some |-> TRUE, val |-> v]

\* const authHeader = req.headers['authorization'];
\* const token = authHeader && authHeader.split(' ')[1]
BearerToken(headers) ==
    IF "authorization" \notin DOMAIN headers THEN Undefined
    ELSE LET authHeader == headers["authorization"] IN
         IF authHeader = <<>> THEN Some(<<>>)
         ELSE LET parts == Split(authHeader)
              IN  IF Len(parts) >= 2 THEN Some(parts[2]) ELSE Undefined

\* !token: undefined or the empty string
Falsy(token) == ~token.some \/ token.val = <<>>

Reply(status, body) == [status |-> status, body |-> body]

\* authenticateToken without the return after the 401: the chain goes on.
authenticateTokenFallsThrough(headers) ==
    LET token == BearerToken(headers) IN
    IF Falsy(token) THEN [next |-> TRUE, user |-> [id |-> 0, role |-> "user"]]
    ELSE LET decoded == JwtVerify(token.val) IN
         IF decoded.ok
            THEN [next |-> TRUE, user |-> [id |-> decoded.userId, role |-> decoded.role]]
         ELSE [next |-> FALSE, res |-> Reply(403, [error |-> "Invalid or expired token"])]

\* authenticateToken: either next() with req.user set, or a response.
authenticateToken(headers) ==
    LET token == BearerToken(headers) IN
    IF Falsy(token)
        THEN [next |-> FALSE, res |-> Reply(401, [error |-> "Access token required"])]
    ELSE LET decoded == JwtVerify(token.val) IN
         IF decoded.ok
            THEN [next |-> TRUE, user |-> [id |-> decoded.userId, role |-> decoded.role]]
         ELSE IF IsJsonWebTokenError(decoded.error)
            THEN [next |-> FALSE,
                  res |-> Reply(403, [error |-> "Invalid or expired token"])]
         ELSE [next |-> FALSE, res |-> Reply(500, [error |-> "Authentication error"])]

\* A gate that turns away the role 'user' and lets every other role through.
requireAdminNotUser(user) ==
    IF ~user.some
        THEN [next |-> FALSE, res |-> Reply(401, [error |-> "Authentication required"])]
    ELSE IF user.val.role = "user"
        THEN [next |-> FALSE, res |-> Reply(403, [error |-> "Admin access required"])]
    ELSE [next |-> TRUE]

\* requireAdmin: next() only for an attached identity whose role is 'admin'.
requireAdmin(user) ==
    IF ~user.some
        THEN [next |-> FALSE, res |-> Reply(401, [error |-> "Authentication required"])]
    ELSE IF user.val.role # "admin"
        THEN [next |-> FALSE, res |-> Reply(403, [error |-> "Admin access required"])]
    ELSE [next |-> TRUE]

-----------------------------------------------------------------------------
(* Route parameters.  A parameter is a sequence of characters.             *)

Digits == <<"0", "1", "2", "3", "4", "5", "6", "7", "8", "9">>

IsDigit(c) == \E d \in 1..Len(Digits) : Digits[d] = c

DigitValue(c) == (CHOOSE d \in 1..Len(Digits) : Digits[d] = c) - 1

\* The value of the digits of s from position i on, up to the first non-digit,
\* given the value acc of the digits read so far.
RECURSIVE ReadDigits(_, _, _)
ReadDigits(s, i, acc) ==
    IF i > Len(s) \/ ~IsDigit(s[i]) THEN acc
    ELSE ReadDigits(s, i + 1, 10 * acc + DigitValue(s[i]))

\* parseInt(s): an optional sign, then the leading digits; NaN when there are none.
parseInt(s) ==
    LET neg   == Len(s) >= 1 /\ s[1] = "-"
        start == IF Len(s) >= 1 /\ s[1] \in {"-", "+"} THEN 2 ELSE 1
    IN  IF start > Len(s) \/ ~IsDigit(s[start]) THEN [nan |-> TRUE, n |-> 0]
        ELSE [nan |-> FALSE,
              n |-> IF neg THEN 0 - ReadDigits(s, start, 0) ELSE ReadDigits(s, start, 0)]

isNaN(x) == x.nan

-----------------------------------------------------------------------------
(* JSON values of a request body, and the zod schemas.  A text is a        *)
(* sequence of symbols; a number is its floor and whether it is integral.  *)

JString(v) == [t |-> "string", v |-> v]

JNumber(v) == [t |-> "number", v |-> v, int |-> TRUE]

JFloat(floor) == [t |-> "number", v |-> floor, int |-> FALSE]

JNull == [t |-> "null"]

taskStatusEnum == {"todo", "in_progress", "review", "done"}

taskPriorityEnum == {"low", "medium", "high", "critical"}

\* new Date(s) for the ISO-8601 instants of the model, in epoch seconds.
DateTable == [s \in {"2024-12-31T23:59:59Z"} |-> 1735689599]

\* the pattern of z.string().datetime()
IsDatetime(s) == s \in DOMAIN DateTable

newDate(s) == DateTable[s]

createTaskSchema ==
    [title       |-> [kind |-> "string", min |-> 1, optional |-> FALSE],
     description |-> [kind |-> "string", min |-> 0, optional |-> TRUE],
     status      |-> [kind |-> "enum", values |-> {"todo", "in_progress", "review", "done"},
                      optional |-> TRUE, dflt |-> "todo"],
     priority    |-> [kind |-> "enum", values |-> {"low", "medium", "high", "critical"},
                      optional |-> TRUE, dflt |-> "medium"],
     projectId   |-> [kind |-> "posint", optional |-> FALSE],
     assignedTo  |-> [kind |-> "posint", optional |-> TRUE],
     dueDate     |-> [kind |-> "datetime", optional |-> TRUE]]

updateTaskSchema ==
    [title       |-> [kind |-> "string", min |-> 1, optional |-> TRUE],
     description |-> [kind |-> "string", min |-> 0, optional |-> TRUE],
     status      |-> [kind |-> "enum", values |-> {"todo", "in_progress", "review", "done"},
                      optional |-> TRUE],
     priority    |-> [kind |-> "enum", values |-> {"low", "medium", "high", "critical"},
                      optional |-> TRUE],
     assignedTo  |-> [kind |-> "posint", optional |-> TRUE],
     dueDate     |-> [kind |-> "datetime", optional |-> TRUE]]

\* z.string() in place of z.enum([...]): any string passes.
ValueIssuesNoEnum(fs, x) ==
    CASE fs.kind = "string" ->
            IF x.t # "string" THEN {"invalid_type"}
            ELSE IF Len(x.v) < fs.min THEN {"too_small"} ELSE {}
      [] fs.kind = "enum" ->
            IF x.t # "string" THEN {"invalid_type"} ELSE {}
      [] fs.kind = "posint" ->
            IF x.t # "number" THEN {"invalid_type"}
            ELSE (IF ~x.int THEN {"invalid_type"} ELSE {})
                 \cup (IF x.v > 0 \/ (x.v = 0 /\ ~x.int) THEN {} ELSE {"too_small"})
      [] fs.kind = "datetime" ->
            IF x.t # "string" THEN {"invalid_type"}
            ELSE IF ~IsDatetime(x.v) THEN {"invalid_string"} ELSE {}

\* The issue codes zod raises for value x under the field schema fs.
ValueIssues(fs, x) ==
    CASE fs.kind = "string" ->
            IF x.t # "string" THEN {"invalid_type"}
            ELSE IF Len(x.v) < fs.min THEN {"too_small"} ELSE {}
      [] fs.kind = "enum" ->
            IF x.t # "string" THEN {"invalid_type"}
            ELSE IF x.v \notin fs.values THEN {"invalid_enum_value"} ELSE {}
      [] fs.kind = "posint" ->
            IF x.t # "number" THEN {"invalid_type"}
            ELSE (IF ~x.int THEN {"invalid_type"} ELSE {})
                 \cup (IF x.v > 0 \/ (x.v = 0 /\ ~x.int) THEN {} ELSE {"too_small"})
      [] fs.kind = "datetime" ->
            IF x.t # "string" THEN {"invalid_type"}
            ELSE IF ~IsDatetime(x.v) THEN {"invalid_string"} ELSE {}

HasDefault(fs) == "dflt" \in DOMAIN fs

\* Every field declared .optional(): a missing required field passes.
FieldIssuesAllOptional(fs, body, f) ==
    IF f \in DOMAIN body THEN ValueIssues(fs, body[f]) ELSE {}

FieldIssues(fs, body, f) ==
    IF f \in DOMAIN body THEN ValueIssues(fs, body[f])
    ELSE IF fs.optional THEN {} ELSE {"invalid_type"}

\* A schema declared with .passthrough(): unknown keys are kept.
ParsePassthrough(schema, body) ==
    LET issues == UNION {{[path |-> f, code |-> c] : c \in FieldIssues(schema[f], body, f)}
                         : f \in DOMAIN schema}
        keys   == DOMAIN body \cup {f \in DOMAIN schema : HasDefault(schema[f])}
    IN  IF issues # {} THEN [success |-> FALSE, errors |-> issues]
        ELSE [success |-> TRUE,
              data |-> [f \in keys |-> IF f \in DOMAIN body THEN body[f].v
                                       ELSE schema[f].dflt]]

\* schema.parse(body): the data (unknown keys stripped, defaults filled in), or
\* a ZodError carrying every issue.
Parse(schema, body) ==
    LET issues == UNION {{[path |-> f, code |-> c] : c \in FieldIssues(schema[f], body, f)}
                         : f \in DOMAIN schema}
        keys   == {f \in DOMAIN schema : f \in DOMAIN body \/ HasDefault(schema[f])}
    IN  IF issues # {} THEN [success |-> FALSE, errors |-> issues]
        ELSE [success |-> TRUE,
              data |-> [f \in keys |-> IF f \in DOMAIN body THEN body[f].v
                                       ELSE schema[f].dflt]]

-----------------------------------------------------------------------------
(* The tasks table.  A row is a record of its non-null columns; a column   *)
(* that is NULL is absent from the row.                                    *)

taskColumns ==
    {"id", "title", "description", "status", "priority", "projectId",
     "assignedTo", "createdBy", "dueDate", "createdAt", "updatedAt"}

\* db.select().from(tasks).where(eq(tasks.id, taskId)).limit(1)
SelectById(rows, taskId) == {r \in rows : r.id = taskId}

\* The insert without its status and priority lines: the column defaults apply.
InsertValuesNoStatus(validatedData, user) ==
    LET given == {"title", "description", "projectId", "assignedTo"} \cap DOMAIN validatedData
        cols  == given \cup {"createdBy"}
                    \cup (IF "dueDate" \in DOMAIN validatedData THEN {"dueDate"} ELSE {})
    IN  [c \in cols |->
            IF c = "createdBy" THEN user.id
            ELSE IF c = "dueDate" THEN newDate(validatedData["dueDate"])
            ELSE validatedData[c]]

\* The values of db.insert(tasks).values({...}): undefined and null are left out.
InsertValues(validatedData, user) ==
    LET given == {"title", "description", "status", "priority", "projectId", "assignedTo"}
                    \cap DOMAIN validatedData
        cols  == given \cup {"createdBy"}
                    \cup (IF "dueDate" \in DOMAIN validatedData THEN {"dueDate"} ELSE {})
    IN  [c \in cols |->
            IF c = "createdBy" THEN user.id
            ELSE IF c = "dueDate" THEN newDate(validatedData["dueDate"])
            ELSE validatedData[c]]

\* The row INSERT ... RETURNING stores: the serial id, the values, and the
\* defaults of the columns left out (status, priority, createdAt, updatedAt).
InsertRow(values, id, time) ==
    LET dflt == [status |-> "todo", priority |-> "medium",
                 createdAt |-> time, updatedAt |-> time]
        cols == DOMAIN values \cup DOMAIN dflt \cup {"id"}
    IN  [c \in cols |->
            IF c = "id" THEN id
            ELSE IF c \in DOMAIN values THEN values[c] ELSE dflt[c]]

\* updateData built over the create defaults: an omitted status or priority is
\* reset.
UpdateDataWithDefaults(validatedData, time) ==
    [c \in DOMAIN validatedData \cup {"updatedAt", "status", "priority"} |->
        IF c = "updatedAt" THEN time
        ELSE IF c \notin DOMAIN validatedData
            THEN (IF c = "status" THEN "todo" ELSE "medium")
        ELSE IF c = "dueDate" THEN newDate(validatedData["dueDate"])
        ELSE validatedData[c]]

\* const updateData = {...validatedData, updatedAt: new Date()}, with dueDate
\* replaced by new Date(validatedData.dueDate) when it is given.
UpdateData(validatedData, time) ==
    [c \in DOMAIN validatedData \cup {"updatedAt"} |->
        IF c = "updatedAt" THEN time
        ELSE IF c = "dueDate" THEN newDate(validatedData["dueDate"])
        ELSE validatedData[c]]

\* The row UPDATE ... SET updateData leaves of row r.
SetColumns(r, updateData) ==
    [c \in DOMAIN r \cup DOMAIN updateData |->
        IF c \in DOMAIN updateData THEN updateData[c] ELSE r[c]]

\* db.update(tasks).set(updateData).where(eq(tasks.id, taskId))
UpdateById(rows, taskId, updateData) ==
    {IF r.id = taskId THEN SetColumns(r, updateData) ELSE r : r \in rows}

\* db.delete(tasks).where(eq(tasks.id, taskId))
DeleteById(rows, taskId) == {r \in rows : r.id # taskId}

\* The filter clauses GET /api/tasks builds from req.query: one per parameter
\* that is present and not empty.
Conditions(query) ==
    LET given == {k \in DOMAIN query \cap {"status", "priority", "projectId",
                                             "assignedTo", "search"} :
                    IF k \in {"status", "priority"} THEN query[k] # ""
                    ELSE query[k] # <<>>}
    IN  [k \in given |->
            IF k \in {"projectId", "assignedTo"} THEN parseInt(query[k]) ELSE query[k]]

\* text LIKE pattern, from position i of the text and j of the pattern: '%'
\* stands for any run of symbols, '_' for any one symbol, and a backslash makes
\* the symbol after it literal.
RECURSIVE LikeFrom(_, _, _, _)
LikeFrom(text, i, pattern, j) ==
    IF j > Len(pattern) THEN i > Len(text)
    ELSE IF pattern[j] = "%"
        THEN \/ LikeFrom(text, i, pattern, j + 1)
             \/ i <= Len(text) /\ LikeFrom(text, i + 1, pattern, j)
    ELSE IF pattern[j] = "_"
        THEN i <= Len(text) /\ LikeFrom(text, i + 1, pattern, j + 1)
    ELSE IF pattern[j] = "\\"
        THEN /\ j < Len(pattern)
             /\ i <= Len(text)
             /\ text[i] = pattern[j + 1]
             /\ LikeFrom(text, i + 1, pattern, j + 2)
    ELSE i <= Len(text) /\ text[i] = pattern[j] /\ LikeFrom(text, i + 1, pattern, j + 1)

\* like(column, `%${search}%`): the search text goes into the pattern as it came.
like(text, search) == LikeFrom(text, 1, <<"%">> \o search \o <<"%">>, 1)

\* The statement is refused by the database: a literal outside the column's enum,
\* or NaN for an integer column.
WhereFails(conds) ==
    \/ "status" \in DOMAIN conds /\ conds["status"] \notin taskStatusEnum
    \/ "priority" \in DOMAIN conds /\ conds["priority"] \notin taskPriorityEnum
    \/ "projectId" \in DOMAIN conds /\ isNaN(conds["projectId"])
    \/ "assignedTo" \in DOMAIN conds /\ isNaN(conds["assignedTo"])

\* and(...conditions) on row r; no condition, no filter.
Where(r, conds) ==
    /\ "status" \in DOMAIN conds => r.status = conds["status"]
    /\ "priority" \in DOMAIN conds => r.priority = conds["priority"]
    /\ "projectId" \in DOMAIN conds => r.projectId = conds["projectId"].n
    /\ "assignedTo" \in DOMAIN conds =>
            "assignedTo" \in DOMAIN r /\ r.assignedTo = conds["assignedTo"].n
    /\ "search" \in DOMAIN conds =>
            \/ like(r.title, conds["search"])
            \/ "description" \in DOMAIN r /\ like(r.description, conds["search"])

\* .orderBy(tasks.createdAt), ascending: the listings of the rows, earliest first.
OrderByCreatedAt(rows) ==
    LET n == Cardinality(rows) IN
    {l \in [1..n -> rows] :
        /\ \A i, j \in 1..n : i # j => l[i] # l[j]
        /\ \A i, j \in 1..n : i < j => l[i].createdAt <= l[j].createdAt}

\* .orderBy(desc(tasks.createdAt)): the listings of the rows, latest first; rows
\* created at the same instant come in any order.
OrderByCreatedAtDesc(rows) ==
    LET n == Cardinality(rows) IN
    {l \in [1..n -> rows] :
        /\ \A i, j \in 1..n : i # j => l[i] # l[j]
        /\ \A i, j \in 1..n : i < j => l[i].createdAt >= l[j].createdAt}

-----------------------------------------------------------------------------
(* Requests.  A request in flight carries what its handler holds across an *)
(* await; the same record, with the response, is the completed exchange.   *)

NoReply == Reply(0, <<>>)

NewRequest(rid, req) ==
    [rid |-> rid, req |-> req, user |-> Undefined, ran |-> FALSE, pc |-> "start",
     taskId |-> 0, data |-> <<>>, updateData |-> <<>>, queries |-> <<>>,
     result |-> {}, res |-> NoReply, doneAt |-> 0]

Drop(f, k) == [x \in DOMAIN f \ {k} |-> f[x]]

Put(f, k, v) == [x \in DOMAIN f \cup {k} |-> IF x = k THEN v ELSE f[x]]

\* res.status(..).json(..): the exchange is complete; doneAt is the number of
\* requests received before the step that completes it.
Send(ctx, res) ==
    /\ last' = {[ctx EXCEPT !.res = res, !.pc = "done", !.doneAt = received]}
    /\ inflight' = Drop(inflight, ctx.rid)

\* await db...: the handler is suspended on the statement.
Await(ctx, pc) ==
    /\ inflight' = Put(inflight, ctx.rid, [ctx EXCEPT !.pc = pc])
    /\ last' = last

\* A request arrives: the middleware runs and, if it calls next(), the handler.
Arrive(req, route) ==
    /\ req.route = route
    /\ received' = received + 1

Entered(req) ==
    LET auth == authenticateToken(req.headers)
        ctx  == NewRequest(received + 1, req)
    IN  IF auth.next THEN [ctx EXCEPT !.user = Some(auth.user), !.ran = TRUE]
        ELSE [ctx EXCEPT !.res = auth.res]

Suspended(rid, route, pc) ==
    /\ rid \in DOMAIN inflight
    /\ inflight[rid].req.route = route
    /\ inflight[rid].pc = pc

\* The statement the handler awaited has run.
Ran(rid, statement) == [inflight[rid] EXCEPT !.queries = Append(@, statement)]

TheRow(rows) == CHOOSE r \in rows : TRUE

-----------------------------------------------------------------------------
(* A route behind requireAdmin, mounted after authenticateToken             *)
(* (req.verifier) or without it.  The exchange ends where the gate leaves   *)
(* it: answered by a middleware, or handed to the next handler (ran).       *)

RequireAdmin(req) ==
    /\ Arrive(req, "requireAdmin")
    /\ LET ctx == IF req.verifier THEN Entered(req)
                  ELSE [NewRequest(received + 1, req) EXCEPT !.ran = TRUE]
       IN
        IF ~ctx.ran THEN Send(ctx, ctx.res)
        ELSE LET gate == requireAdmin(ctx.user) IN
             IF gate.next THEN Send(ctx, NoReply)
             ELSE Send([ctx EXCEPT !.ran = FALSE], gate.res)
    /\ UNCHANGED <<tasks, nextId, now, creator, okDeletes>>

-----------------------------------------------------------------------------
(* GET /api/tasks                                                          *)

ListTasks(req) ==
    /\ Arrive(req, "GET /")
    /\ LET ctx == Entered(req) IN
        IF ~ctx.ran THEN Send(ctx, ctx.res)
        ELSE Await([ctx EXCEPT !.data = Conditions(req.query)], "select")
    /\ UNCHANGED <<tasks, nextId, now, creator, okDeletes>>

ListTasksQuery(rid) ==
    /\ Suspended(rid, "GET /", "select")
    /\ LET ctx == Ran(rid, "select") IN
        IF WhereFails(ctx.data)
            THEN Send(ctx, Reply(500, [error |-> "Failed to fetch tasks"]))
        ELSE LET found == {r \in tasks : Where(r, ctx.data)} IN
             \E taskList \in OrderByCreatedAtDesc(found) :
                Send([ctx EXCEPT !.result = found],
                     Reply(200, [tasks |-> taskList, count |-> Len(taskList)]))
    /\ UNCHANGED <<tasks, nextId, now, received, creator, okDeletes>>

-----------------------------------------------------------------------------
(* GET /api/tasks/:id                                                      *)

GetTask(req) ==
    /\ Arrive(req, "GET /:id")
    /\ LET ctx    == Entered(req)
           taskId == parseInt(req.params.id)
       IN
        IF ~ctx.ran THEN Send(ctx, ctx.res)
        ELSE IF isNaN(taskId) THEN Send(ctx, Reply(400, [error |-> "Invalid task ID"]))
        ELSE Await([ctx EXCEPT !.taskId = taskId.n], "select")
    /\ UNCHANGED <<tasks, nextId, now, creator, okDeletes>>

GetTaskQuery(rid) ==
    /\ Suspended(rid, "GET /:id", "select")
    /\ LET found == SelectById(tasks, inflight[rid].taskId)
           ctx   == [Ran(rid, "select") EXCEPT !.result = found]
       IN
        IF found = {} THEN Send(ctx, Reply(404, [error |-> "Task not found"]))
        ELSE Send(ctx, Reply(200, [task |-> TheRow(found)]))
    /\ UNCHANGED <<tasks, nextId, now, received, creator, okDeletes>>

-----------------------------------------------------------------------------
(* POST /api/tasks                                                         *)

CreateTask(req) ==
    /\ Arrive(req, "POST /")
    /\ LET ctx    == Entered(req)
           parsed == Parse(createTaskSchema, req.body)
       IN
        IF ~ctx.ran THEN Send(ctx, ctx.res)
        ELSE IF ~parsed.success
            THEN Send(ctx, Reply(400, [error |-> "Validation error",
                                       details |-> parsed.errors]))
        ELSE Await([ctx EXCEPT !.data = parsed.data], "insert")
    /\ UNCHANGED <<tasks, nextId, now, creator, okDeletes>>

CreateTaskInsert(rid) ==
    /\ Suspended(rid, "POST /", "insert")
    /\ \E dt \in {0, 1} :
        LET ctx     == Ran(rid, "insert")
            newTask == InsertRow(InsertValues(ctx.data, ctx.user.val), nextId, now + dt)
        IN  /\ now' = now + dt
            /\ tasks' = tasks \cup {newTask}
            /\ nextId' = nextId + 1
            /\ creator' = Put(creator, nextId, ctx.user.val.id)
            /\ Send([ctx EXCEPT !.result = {newTask}],
                    Reply(201, [message |-> "Task created successfully",
                                task |-> newTask]))
    /\ UNCHANGED <<received, okDeletes>>

-----------------------------------------------------------------------------
(* PUT /api/tasks/:id                                                      *)

UpdateTask(req) ==
    /\ Arrive(req, "PUT /:id")
    /\ LET ctx    == Entered(req)
           taskId == parseInt(req.params.id)
           parsed == Parse(updateTaskSchema, req.body)
       IN
        IF ~ctx.ran THEN Send(ctx, ctx.res)
        ELSE IF isNaN(taskId) THEN Send(ctx, Reply(400, [error |-> "Invalid task ID"]))
        ELSE IF ~parsed.success
            THEN Send(ctx, Reply(400, [error |-> "Validation error",
                                       details |-> parsed.errors]))
        ELSE Await([ctx EXCEPT !.taskId = taskId.n, !.data = parsed.data], "select")
    /\ UNCHANGED <<tasks, nextId, now, creator, okDeletes>>

\* The update without its existence check.
UpdateTaskUnchecked(rid) ==
    /\ Suspended(rid, "PUT /:id", "select")
    /\ LET found == SelectById(tasks, inflight[rid].taskId)
           ctx   == [Ran(rid, "select") EXCEPT !.result = found]
       IN
        \E dt \in {0, 1} :
            /\ now' = now + dt
            /\ Await([ctx EXCEPT !.updateData = UpdateData(ctx.data, now + dt)], "update")
    /\ UNCHANGED <<tasks, nextId, received, creator, okDeletes>>

\* The update written as {...existingTask, ...validatedData}: the row as selected
\* is written back whole under the supplied fields.
UpdateTaskSelectMerging(rid) ==
    /\ Suspended(rid, "PUT /:id", "select")
    /\ LET found == SelectById(tasks, inflight[rid].taskId)
           ctx   == [Ran(rid, "select") EXCEPT !.result = found]
       IN
        IF found = {}
            THEN /\ Send(ctx, Reply(404, [error |-> "Task not found"]))
                 /\ now' = now
        ELSE \E dt \in {0, 1} :
                LET supplied == UpdateData(ctx.data, now + dt)
                    existing == TheRow(found)
                IN
                /\ now' = now + dt
                /\ Await([ctx EXCEPT !.updateData =
                            [c \in (DOMAIN existing \ {"id"}) \cup DOMAIN supplied |->
                                IF c \in DOMAIN supplied THEN supplied[c]
                                ELSE existing[c]]],
                         "update")
    /\ UNCHANGED <<tasks, nextId, received, creator, okDeletes>>

UpdateTaskSelect(rid) ==
    /\ Suspended(rid, "PUT /:id", "select")
    /\ LET found == SelectById(tasks, inflight[rid].taskId)
           ctx   == [Ran(rid, "select") EXCEPT !.result = found]
       IN
        IF found = {}
            THEN /\ Send(ctx, Reply(404, [error |-> "Task not found"]))
                 /\ now' = now
        ELSE \E dt \in {0, 1} :
                /\ now' = now + dt
                /\ Await([ctx EXCEPT !.updateData = UpdateData(ctx.data, now + dt)],
                         "update")
    /\ UNCHANGED <<tasks, nextId, received, creator, okDeletes>>

UpdateTaskUpdate(rid) ==
    /\ Suspended(rid, "PUT /:id", "update")
    /\ LET ctx      == Ran(rid, "update")
           returned == {SetColumns(r, ctx.updateData) : r \in SelectById(tasks, ctx.taskId)}
       IN
        /\ tasks' = UpdateById(tasks, ctx.taskId, ctx.updateData)
        /\ Send([ctx EXCEPT !.result = returned],
                Reply(200, IF returned = {}
                           THEN [message |-> "Task updated successfully"]
                           ELSE [message |-> "Task updated successfully",
                                 task |-> TheRow(returned)]))
    /\ UNCHANGED <<nextId, now, received, creator, okDeletes>>

-----------------------------------------------------------------------------
(* DELETE /api/tasks/:id                                                   *)

DeleteTask(req) ==
    /\ Arrive(req, "DELETE /:id")
    /\ LET ctx    == Entered(req)
           taskId == parseInt(req.params.id)
       IN
        IF ~ctx.ran THEN Send(ctx, ctx.res)
        ELSE IF isNaN(taskId) THEN Send(ctx, Reply(400, [error |-> "Invalid task ID"]))
        ELSE Await([ctx EXCEPT !.taskId = taskId.n], "select")
    /\ UNCHANGED <<tasks, nextId, now, creator, okDeletes>>

\* The delete with an ownership check: only the task's creator or an admin goes
\* on to the DELETE statement.
DeleteTaskSelectOwnerOnly(rid) ==
    /\ Suspended(rid, "DELETE /:id", "select")
    /\ LET found == SelectById(tasks, inflight[rid].taskId)
           ctx   == [Ran(rid, "select") EXCEPT !.result = found]
       IN
        IF found = {} THEN Send(ctx, Reply(404, [error |-> "Task not found"]))
        ELSE IF /\ TheRow(found).createdBy # ctx.user.val.id
                /\ ctx.user.val.role # "admin"
            THEN Send(ctx, Reply(403, [error |-> "Forbidden"]))
        ELSE Await(ctx, "delete")
    /\ UNCHANGED <<tasks, nextId, now, received, creator, okDeletes>>

DeleteTaskSelect(rid) ==
    /\ Suspended(rid, "DELETE /:id", "select")
    /\ LET found == SelectById(tasks, inflight[rid].taskId)
           ctx   == [Ran(rid, "select") EXCEPT !.result = found]
       IN
        IF found = {} THEN Send(ctx, Reply(404, [error |-> "Task not found"]))
        ELSE Await(ctx, "delete")
    /\ UNCHANGED <<tasks, nextId, now, received, creator, okDeletes>>

DeleteTaskDelete(rid) ==
    /\ Suspended(rid, "DELETE /:id", "delete")
    /\ LET ctx     == Ran(rid, "delete")
           removed == SelectById(tasks, ctx.taskId)
           count   == IF ctx.taskId \in DOMAIN okDeletes THEN okDeletes[ctx.taskId] ELSE 0
       IN
        /\ tasks' = DeleteById(tasks, ctx.taskId)
        /\ okDeletes' = Put(okDeletes, ctx.taskId, count + 1)
        /\ Send([ctx EXCEPT !.result = removed],
                Reply(200, [message |-> "Task deleted successfully"]))
    /\ UNCHANGED <<nextId, now, received, creator>>

-----------------------------------------------------------------------------
(* The requests clients send.                                              *)

Bearer(token) == [authorization |-> <<Word("Bearer"), SP, token>>]

userToken == Jwt(7, "user", "server", FALSE)

adminToken == Jwt(8, "admin", "server", FALSE)

forgedToken == Jwt(7, "admin", "forged", FALSE)

expiredToken == Jwt(7, "user", "server", TRUE)

\* Headers that carry no bearer token.
TokenlessHeaders ==
    {<<>>,
     [authorization |-> <<>>],
     [authorization |-> <<Word("Bearer")>>],
     [authorization |-> <<Word("Bearer"), SP>>]}

\* Headers whose token does not verify.
BadTokenHeaders ==
    {Bearer(forgedToken), Bearer(expiredToken), Bearer(Word("garbage")),
     [authorization |-> <<Word("Bearer"), SP, userToken, Word("x")>>]}

GoodTokenHeaders == {Bearer(userToken), Bearer(adminToken)}

FixBug == <<"Fix", "bug">>

FeatureX == <<"Implement", "feature", "X">>

RequestsOver(Headers, Ids, Queries, CreateBodies, UpdateBodies) ==
    {[route |-> "GET /", headers |-> h, params |-> <<>>, query |-> q, body |-> <<>>] :
        h \in Headers, q \in Queries}
    \cup {[route |-> r, headers |-> h, params |-> [id |-> i], query |-> <<>>, body |-> <<>>] :
        r \in {"GET /:id", "DELETE /:id"}, h \in Headers, i \in Ids}
    \cup {[route |-> "POST /", headers |-> h, params |-> <<>>, query |-> <<>>, body |-> b] :
        h \in Headers, b \in CreateBodies}
    \cup {[route |-> "PUT /:id", headers |-> h, params |-> [id |-> i], query |-> <<>>,
           body |-> b] :
        h \in Headers, i \in Ids, b \in UpdateBodies}

\* Concurrent clients of one task: one identity, small bodies.
Requests ==
    RequestsOver({Bearer(userToken)}, {<<"1">>}, {<<>>},
                 {[title |-> JString(FixBug), projectId |-> JNumber(5)]},
                 {[status |-> JString("done")],
                  [status |-> JString("review"), priority |-> JString("high")]})

\* Clients with every kind of Authorization header.
AuthRequests ==
    RequestsOver(TokenlessHeaders \cup BadTokenHeaders \cup GoodTokenHeaders,
                 {<<"1">>}, {<<>>},
                 {[title |-> JString(FixBug), projectId |-> JNumber(5)]},
                 {[status |-> JString("done")]})

Due == JString("2024-12-31T23:59:59Z")

\* The minimal valid create payload, and one that gives every field and a
\* createdBy of its own.
CreateMinimal == [title |-> JString(FixBug), projectId |-> JNumber(5)]

CreateFull ==
    [title |-> JString(FeatureX), description |-> JString(<<"X">>),
     status |-> JString("in_progress"), priority |-> JString("high"),
     projectId |-> JNumber(6), assignedTo |-> JNumber(8), dueDate |-> Due,
     createdBy |-> JNumber(99)]

GoodCreateBodies ==
    {CreateMinimal, CreateFull,
     [title |-> JString(FixBug), projectId |-> JNumber(5), status |-> JString("done"),
      createdBy |-> JNumber(8)]}

\* Create payloads that violate createTaskSchema, one violation each and one
\* with two.
BadCreateBodies ==
    {[projectId |-> JNumber(5)],
     [title |-> JString(FixBug)],
     [title |-> JString(<<>>), projectId |-> JNumber(5)],
     [title |-> JNumber(5), projectId |-> JNumber(5)],
     [title |-> JString(FixBug), projectId |-> JNumber(0)],
     [title |-> JString(FixBug), projectId |-> JFloat(1)],
     [title |-> JString(FixBug), projectId |-> JString(<<"5">>)],
     [title |-> JString(FixBug), projectId |-> JNumber(5), status |-> JString("bogus")],
     [title |-> JString(FixBug), projectId |-> JNumber(5), priority |-> JString("urgent")],
     [title |-> JString(FixBug), projectId |-> JNumber(5), assignedTo |-> JNumber(-1)],
     [title |-> JString(FixBug), projectId |-> JNumber(5), dueDate |-> JString("tomorrow")],
     [title |-> JString(FixBug), projectId |-> JNumber(5), description |-> JNull],
     [status |-> JString("bogus"), priority |-> JString("urgent")]}

GoodUpdateBodies ==
    {<<>>,
     [status |-> JString("done")],
     [title |-> JString(FeatureX), priority |-> JString("critical"),
      createdBy |-> JNumber(99)],
     [description |-> JString(<<"X">>), assignedTo |-> JNumber(8), dueDate |-> Due]}

BadUpdateBodies ==
    {[status |-> JString("bogus")],
     [priority |-> JString("urgent")],
     [title |-> JString(<<>>)],
     [title |-> JNumber(5)],
     [assignedTo |-> JNumber(0)],
     [assignedTo |-> JFloat(1)],
     [dueDate |-> JString("tomorrow")],
     [status |-> JString("done"), priority |-> JString("urgent")]}

\* Clients with every kind of body, valid and not.
BodyRequests ==
    RequestsOver(GoodTokenHeaders, {<<"1">>, <<"a", "b", "c">>}, {<<>>},
                 GoodCreateBodies \cup BadCreateBodies,
                 GoodUpdateBodies \cup BadUpdateBodies)

managerToken == Jwt(9, "manager", "server", FALSE)

\* Requests to the gated route: no header, each role, a role that differs from
\* 'admin' in case only, and a forged admin token; with the verifier and without.
GateRequests ==
    {[route |-> "requireAdmin", headers |-> h, verifier |-> v, params |-> <<>>,
      query |-> <<>>, body |-> <<>>] :
        h \in {<<>>, Bearer(userToken), Bearer(adminToken), Bearer(managerToken),
               Bearer(Jwt(7, "Admin", "server", FALSE)), Bearer(forgedToken)},
        v \in BOOLEAN}

\* The same requests from three identities: the user, who creates the task, an
\* admin and a manager (who does not list).
TwinRequests ==
    RequestsOver({Bearer(userToken)}, {<<"1">>}, {<<>>}, {CreateMinimal},
                 {[status |-> JString("done")]})
    \cup RequestsOver({Bearer(adminToken)}, {<<"1">>}, {<<>>}, {},
                      {[status |-> JString("done")]})
    \cup RequestsOver({Bearer(managerToken)}, {<<"1">>}, {}, {},
                      {[status |-> JString("done")]})

\* Filters for GET /api/tasks: none, each clause, clauses together, search text
\* with a LIKE wildcard in it, and values the columns cannot hold.
ListQueries ==
    {<<>>,
     [status |-> "todo"],
     [priority |-> "high", projectId |-> <<"6">>],
     [assignedTo |-> <<"8">>, search |-> <<"X">>],
     [search |-> <<"bug">>],
     [search |-> <<"_", "bug">>],
     [status |-> "bogus"],
     [projectId |-> <<"a">>]}

\* Clients that create tasks and list them under every filter.
ListRequests ==
    RequestsOver({Bearer(userToken)}, {<<"1">>}, ListQueries,
                 {CreateMinimal, CreateFull},
                 {[status |-> JString("done")]})

-----------------------------------------------------------------------------

Init ==
    /\ tasks = {}
    /\ nextId = 1
    /\ now = 0
    /\ inflight = <<>>
    /\ received = 0
    /\ last = {}
    /\ creator = <<>>
    /\ okDeletes = <<>>

\* At most max requests arrive, each drawn from R.
NextOver(R, max) ==
    \/ received < max /\ \E req \in R : ListTasks(req)
    \/ received < max /\ \E req \in R : GetTask(req)
    \/ received < max /\ \E req \in R : CreateTask(req)
    \/ received < max /\ \E req \in R : UpdateTask(req)
    \/ received < max /\ \E req \in R : DeleteTask(req)
    \/ \E rid \in DOMAIN inflight : ListTasksQuery(rid)
    \/ \E rid \in DOMAIN inflight : GetTaskQuery(rid)
    \/ \E rid \in DOMAIN inflight : CreateTaskInsert(rid)
    \/ \E rid \in DOMAIN inflight : UpdateTaskSelect(rid)
    \/ \E rid \in DOMAIN inflight : UpdateTaskUpdate(rid)
    \/ \E rid \in DOMAIN inflight : DeleteTaskSelect(rid)
    \/ \E rid \in DOMAIN inflight : DeleteTaskDelete(rid)

Next == NextOver(Requests, MaxReqs)

Spec == Init /\ [][Next]_vars

NextAuth == NextOver(AuthRequests, MaxAuthReqs)

SpecAuth == Init /\ [][NextAuth]_vars

NextBodies == NextOver(BodyRequests, MaxBodyReqs)

SpecBodies == Init /\ [][NextBodies]_vars

\* The task routes, and next to them the gated route.
NextGate ==
    \/ NextOver(Requests, MaxGateReqs)
    \/ received < MaxGateReqs /\ \E req \in GateRequests : RequireAdmin(req)

SpecGate == Init /\ [][NextGate]_vars

NextTwins == NextOver(TwinRequests, MaxTwinReqs)

SpecTwins == Init /\ [][NextTwins]_vars

NextList == NextOver(ListRequests, MaxListReqs)

SpecList == Init /\ [][NextList]_vars

-----------------------------------------------------------------------------
(* Properties.                                                             *)

\* The requests suspended in a handler.
Suspensions == {inflight[rid] : rid \in DOMAIN inflight}

ByIdRoutes == {"GET /:id", "PUT /:id", "DELETE /:id"}

NotFound == Reply(404, [error |-> "Task not found"])

\* The identity a bearer header's token claims.
ClaimedIdentity(headers) ==
    [id |-> headers["authorization"][3].userId, role |-> headers["authorization"][3].role]

\* C1: a request without a bearer token is answered 401 on every route and its
\* handler never runs; it issues no statement against the task store.
TokenlessIsRejected ==
    /\ \A x \in last :
        x.req.headers \in TokenlessHeaders =>
            /\ x.res.status = 401
            /\ ~x.ran
            /\ x.queries = <<>>
    /\ \A x \in Suspensions : x.req.headers \notin TokenlessHeaders

\* A tokenless request to every one of the routes has been turned away with tasks
\* in store.
TokenlessRejectedWitness ==
    /\ tasks # {}
    /\ \E x \in last :
        /\ x.req.route = "DELETE /:id"
        /\ x.req.headers = [authorization |-> <<Word("Bearer")>>]
        /\ x.res.status = 401
        /\ SelectById(tasks, 1) # {}

Given(body, f, fallback) == IF f \in DOMAIN body THEN body[f].v ELSE fallback

\* C3: a valid create payload from an authenticated identity is answered 201 with
\* the created record, whose createdBy is the requester's id whatever the payload
\* says, whose status and priority are the payload's or 'todo' and 'medium', and
\* whose projectId is the payload's.
CreateStoresRequesterAndDefaults ==
    \A x \in last :
        (x.req.route = "POST /" /\ x.ran /\ x.req.body \in GoodCreateBodies) =>
            /\ x.res.status = 201
            /\ DOMAIN x.res.body = {"message", "task"}
            /\ x.result = {x.res.body.task}
            /\ x.res.body.task.createdBy = ClaimedIdentity(x.req.headers).id
            /\ x.res.body.task.status = Given(x.req.body, "status", "todo")
            /\ x.res.body.task.priority = Given(x.req.body, "priority", "medium")
            /\ x.res.body.task.projectId = x.req.body["projectId"].v

\* The admin (8) created a task from a payload that names every field and
\* createdBy 99, and a task made from the minimal payload is in store.
CreateWitness ==
    /\ \E x \in last :
        /\ x.req.route = "POST /"
        /\ x.req.body = CreateFull
        /\ x.user = Some([id |-> 8, role |-> "admin"])
        /\ x.res.status = 201
    /\ \E r \in tasks : r.status = "todo" /\ r.priority = "medium" /\ r.createdBy = 7

\* The decimal numeral of a task id below ten.
Numeral(n) == <<Digits[n + 1]>>

\* Route parameter p names a row of rows.
Present(rows, p) == \E r \in rows : r.id < 10 /\ Numeral(r.id) = p

\* Route parameter p is a decimal numeral.
IsNumeral(p) == p # <<>> /\ \A i \in 1..Len(p) : IsDigit(p[i])

\* C4, as stated: an authenticated read, update or delete of an id that is not in
\* storage is answered 404 'Task not found' whatever its body and leaves the store
\* as it was; a create is never answered 404.
MissingIdIs404WhateverBody ==
    [][\A x \in last' \ last :
        /\ (x.ran /\ x.req.route \in ByIdRoutes /\ IsNumeral(x.req.params.id)
                /\ ~Present(tasks, x.req.params.id))
            => (x.res = NotFound /\ tasks' = tasks)
        /\ x.req.route = "POST /" => x.res.status # 404]_vars

\* C4, amended: an authenticated read, update or delete whose id is a numeral
\* and, for an update, whose body passes the update schema, is not answered before
\* it reaches the store; if the id is not in storage when its first statement
\* runs, that statement ends the request with 404 'Task not found' and leaves the
\* store as it was.  An update whose body fails the schema is answered 400
\* before any statement.  A create is never answered 404.
MissingIdIs404 ==
    [][/\ \A x \in last' \ last :
            /\ (x.ran /\ x.req.route \in ByIdRoutes /\ IsNumeral(x.req.params.id)
                    /\ (x.req.route = "PUT /:id" => x.req.body \in GoodUpdateBodies))
                => x.queries # <<>>
            /\ x.req.route = "POST /" => x.res.status # 404
            /\ (x.ran /\ x.req.route = "PUT /:id" /\ x.req.body \in BadUpdateBodies)
                => x.res.status = 400 /\ x.queries = <<>>
       /\ \A rid \in DOMAIN inflight :
            (/\ inflight[rid].req.route \in ByIdRoutes
             /\ inflight[rid].queries = <<>>
             /\ ~Present(tasks, inflight[rid].req.params.id)
             /\ (rid \notin DOMAIN inflight' \/ inflight'[rid] # inflight[rid]))
            => /\ \E x \in last' : x.rid = rid /\ x.res = NotFound
               /\ tasks' = tasks]_vars

\* An update with a non-empty valid body was answered 404 for an id that a create
\* in flight is about to take.
MissingIdWitness ==
    /\ \E x \in last :
        /\ x.req.route = "PUT /:id"
        /\ x.req.body = [status |-> JString("done")]
        /\ x.res = NotFound
    /\ tasks = {}
    /\ \E y \in Suspensions : y.req.route = "POST /"

\* C5: under every interleaving, a 200 'Task updated successfully' reply carries
\* the updated record, the stored row with the supplied fields merged over it; an
\* update that finds no row is answered 404.
UpdateReplyCarriesRecord ==
    \A x \in last :
        (x.req.route = "PUT /:id" /\ x.res.status = 200) =>
            /\ "task" \in DOMAIN x.res.body
            /\ x.res.body.task.id = x.taskId
            /\ \A f \in DOMAIN x.data \ {"dueDate"} : x.res.body.task[f] = x.data[f]

\* C6: deletion is permanent and reported once: a read, update or delete that
\* reaches an id already deleted is answered 404, and at most one DELETE per id is
\* answered 'Task deleted successfully'.
DeletionReportedOnce ==
    /\ \A id \in DOMAIN okDeletes : okDeletes[id] <= 1
    /\ \A x \in last :
        (x.req.route \in ByIdRoutes /\ x.res.status = 200) => x.result # {}

UpdatableFields == {"title", "description", "status", "priority", "assignedTo", "dueDate"}

\* C7: a successful update changes, in the row it names, exactly the fields its
\* payload supplies and updatedAt; every other column and every other row keeps
\* its value; the empty payload is accepted.
UpdateChangesOnlySuppliedFields ==
    [][\A x \in last' \ last :
        /\ (x.req.route = "PUT /:id" /\ x.res.status = 200) =>
            LET supplied == DOMAIN x.req.body \cap UpdatableFields IN
            /\ Cardinality(tasks') = Cardinality(tasks)
            /\ \A r \in tasks :
                IF ~Present({r}, x.req.params.id) THEN r \in tasks'
                ELSE \E q \in tasks' :
                        /\ q.id = r.id
                        /\ DOMAIN q = DOMAIN r \cup supplied
                        /\ \A c \in DOMAIN r \ (supplied \cup {"updatedAt"}) : q[c] = r[c]
                        /\ \A c \in supplied \ {"dueDate"} : q[c] = x.req.body[c].v
                        /\ "dueDate" \in supplied =>
                                q.dueDate = newDate(x.req.body["dueDate"].v)
                        /\ q.updatedAt <= now'
        /\ (x.req.route = "PUT /:id" /\ x.ran /\ x.req.body = <<>>
                /\ IsNumeral(x.req.params.id))
            => x.res.status \in {200, 404}]_vars

\* An update of title and priority, carrying a createdBy of its own, succeeded on
\* the task created with every field; an empty update succeeded too.
PartialUpdateWitness ==
    \E x \in last :
        /\ x.req.route = "PUT /:id"
        /\ x.res.status = 200
        /\ \/ "title" \in DOMAIN x.req.body
           \/ x.req.body = <<>>
        /\ \E r \in x.result : r.status = "in_progress" /\ "assignedTo" \in DOMAIN r

\* C8: every stored task's createdBy is the identity id of the request that
\* inserted it; no update changes it.
CreatorIsFixed ==
    \A r \in tasks : r.id \in DOMAIN creator /\ r.createdBy = creator[r.id]

\* Another identity's update whose body names a createdBy has gone through.
CreatorWitness ==
    \E x \in last :
        /\ x.req.route = "PUT /:id"
        /\ x.res.status = 200
        /\ "createdBy" \in DOMAIN x.req.body
        /\ \E r \in tasks : r.id = x.taskId /\ r.createdBy # x.user.val.id
                            /\ r.title = FeatureX

ViolatesSchema(x) ==
    \/ x.req.route = "POST /" /\ x.req.body \in BadCreateBodies
    \/ x.req.route = "PUT /:id" /\ x.req.body \in BadUpdateBodies

\* parseInt finds a number at the start of route parameter p.
LeadingInteger(p) ==
    /\ p # <<>>
    /\ \/ IsDigit(p[1])
       \/ p[1] \in {"-", "+"} /\ Len(p) >= 2 /\ IsDigit(p[2])

\* C10, as stated: a create or update whose body violates its schema is answered
\* 400 with a list of violations and issues no statement.
BadBodyIs400WithViolations ==
    \A x \in last :
        (x.ran /\ ViolatesSchema(x)) =>
            /\ x.res.status = 400
            /\ "details" \in DOMAIN x.res.body
            /\ x.res.body.details # {}
            /\ x.queries = <<>>

\* C10, amended: the same for a create and for an update whose :id starts with
\* an integer; an update whose :id does not is answered 400 'Invalid task ID'
\* with no list.  No statement is issued either way.
BadBodyIs400 ==
    \A x \in last :
        (x.ran /\ ViolatesSchema(x)) =>
            /\ x.res.status = 400
            /\ x.queries = <<>>
            /\ IF x.req.route = "PUT /:id" /\ ~LeadingInteger(x.req.params.id)
                THEN x.res.body = [error |-> "Invalid task ID"]
                ELSE /\ DOMAIN x.res.body = {"error", "details"}
                     /\ x.res.body.error = "Validation error"
                     /\ x.res.body.details # {}
                     /\ \A d \in x.res.body.details :
                            d.path \in DOMAIN x.req.body
                            \/ d.path \in {"title", "projectId"}

\* A create without a title was refused with a task in store: that task is still
\* the only one and no id was consumed.
BadBodyWitness ==
    /\ Cardinality(tasks) = 1
    /\ nextId = 2
    /\ \E x \in last :
        /\ x.req.route = "POST /"
        /\ x.req.body = [projectId |-> JNumber(5)]
        /\ x.res.status = 400
        /\ [path |-> "title", code |-> "invalid_type"] \in x.res.body.details

\* The search text occurs in the text.
Contains(text, pat) ==
    \E i \in 0..(Len(text) - Len(pat)) : SubSeq(text, i + 1, i + Len(pat)) = pat

\* Row r satisfies every clause the query string supplies.
Satisfies(r, query) ==
    /\ "status" \in DOMAIN query => r.status = query["status"]
    /\ "priority" \in DOMAIN query => r.priority = query["priority"]
    /\ "projectId" \in DOMAIN query => Numeral(r.projectId) = query["projectId"]
    /\ "assignedTo" \in DOMAIN query =>
            "assignedTo" \in DOMAIN r /\ Numeral(r.assignedTo) = query["assignedTo"]
    /\ "search" \in DOMAIN query =>
            \/ Contains(r.title, query["search"])
            \/ "description" \in DOMAIN r /\ Contains(r.description, query["search"])

\* The rows in a listing.
Range(l) == {l[i] : i \in DOMAIN l}

\* C11: an authenticated GET /api/tasks returns exactly the stored tasks that
\* satisfy every supplied clause (all of them when none is supplied) and leaves
\* the store as it was.
ListReturnsExactlyMatching ==
    \A x \in last :
        (x.req.route = "GET /" /\ x.ran) =>
            /\ x.res.status = 200
            /\ Range(x.res.body.tasks) = {r \in tasks : Satisfies(r, x.req.query)}

\* C12: every listing returned by GET /api/tasks, filtered or not, is in
\* descending order of creation time (no task comes before one created later), and
\* the count returned with it is the length of the listing.
ListIsLatestFirstWithCount ==
    \A x \in last :
        (x.req.route = "GET /" /\ x.res.status = 200) =>
            LET l == x.res.body.tasks IN
            /\ x.res.body.count = Len(l)
            /\ \A i, j \in DOMAIN l : i < j => l[i].createdAt >= l[j].createdAt

\* A filtered listing returned two tasks created at different times.
ListOrderWitness ==
    \E x \in last :
        /\ x.req.route = "GET /"
        /\ x.req.query = [status |-> "todo"]
        /\ x.res.status = 200
        /\ x.res.body.count = 2
        /\ x.res.body.tasks[1].createdAt > x.res.body.tasks[2].createdAt

\* Exchange y was in flight at some moment when exchange x, completed before it,
\* was in flight too.
Overlapped(x, y) == y.rid <= x.doneAt

\* C13: when an update completes on a task that an overlapping update has just
\* written, neither is refused (both are answered 200) and the row then holds, in
\* every field the later write supplied, the later write's value, and in every
\* field only the earlier one supplied, the earlier one's value.
OverlappingUpdatesLastWriteWins ==
    [][\A y \in last' \ last : \A x \in last :
        (/\ x.req.route = "PUT /:id"
         /\ y.req.route = "PUT /:id"
         /\ x.req.params.id = y.req.params.id
         /\ Overlapped(x, y)
         /\ x.result # {}
         /\ Present(tasks, y.req.params.id))
        => /\ x.res.status = 200
           /\ y.res.status = 200
           /\ \E r \in tasks' :
                /\ Present({r}, y.req.params.id)
                /\ \A f \in (DOMAIN y.req.body \cap UpdatableFields) \ {"dueDate"} :
                        r[f] = y.req.body[f].v
                /\ \A f \in ((DOMAIN x.req.body \ DOMAIN y.req.body)
                                \cap UpdatableFields) \ {"dueDate"} :
                        r[f] = x.req.body[f].v]_vars

\* The second of three requests, an update to status 'done', completed last and
\* no request is in flight: the update to 'review' and 'high' wrote before it, and
\* ran while it was in flight.  The row holds 'done' and 'high'.
OverlappingUpdatesWitness ==
    /\ received = 3
    /\ inflight = <<>>
    /\ \E y \in last :
        /\ y.rid = 2
        /\ y.req.route = "PUT /:id"
        /\ y.req.body = [status |-> JString("done")]
        /\ y.res.status = 200
        /\ \E r \in tasks : r.id = y.taskId /\ r.status = "done" /\ r.priority = "high"

\* C14: requireAdmin hands the request on only if an identity is attached and
\* its role is exactly 'admin'; an identity of another role is answered 403, no
\* identity 401; an exchange it answers reaches no handler and leaves the store,
\* the clock and the requests in flight as they were.
AdminGateAdmitsOnlyAdmin ==
    [][\A x \in last' \ last :
        x.req.route = "requireAdmin" =>
            /\ x.ran <=> (x.user.some /\ x.user.val.role = "admin")
            /\ (x.user.some /\ x.user.val.role # "admin")
                => x.res = Reply(403, [error |-> "Admin access required"])
            /\ (~x.user.some /\ ~x.req.verifier)
                => x.res = Reply(401, [error |-> "Authentication required"])
            /\ ~x.user.some => x.res.status \in {401, 403}
            /\ x.queries = <<>>
            /\ <<tasks, nextId, now, inflight, creator, okDeletes>>'
                    = <<tasks, nextId, now, inflight, creator, okDeletes>>]_vars

\* A verified manager was turned away with 403 while a task was in store.
AdminGateWitness ==
    /\ tasks # {}
    /\ \E x \in last :
        /\ x.req.route = "requireAdmin"
        /\ x.user.some
        /\ x.user.val.role = "manager"
        /\ x.res.status = 403
        /\ ~x.ran

\* Request rid as the step leaves it: in flight, or the exchange just completed.
After(rid) ==
    IF rid \in DOMAIN inflight' THEN inflight'[rid]
    ELSE CHOOSE x \in last' : x.rid = rid

\* The update wrote body's fields, and nothing else but updatedAt, into the row
\* that id names; the delete removed that row.
Written(route, id, body) ==
    IF route = "DELETE /:id" THEN tasks' = {r \in tasks : ~Present({r}, id)}
    ELSE LET supplied == DOMAIN body \cap UpdatableFields IN
         /\ Cardinality(tasks') = Cardinality(tasks)
         /\ \A r \in tasks :
                IF ~Present({r}, id) THEN r \in tasks'
                ELSE \E q \in tasks' :
                        /\ q.id = r.id
                        /\ DOMAIN q = DOMAIN r \cup supplied
                        /\ \A c \in DOMAIN r \ (supplied \cup {"updatedAt"}) : q[c] = r[c]
                        /\ \A c \in supplied \ {"dueDate"} : q[c] = body[c].v
                        /\ q.updatedAt <= now'

\* C15: what a read, list, update or delete by a verified requester does is
\* fixed by the request's route, id, query and body and by the store, whoever
\* the requester is (any id and role, the task's creator or not).  On arrival it
\* is answered 400 for an id with no integer or a body outside the schema, and
\* otherwise suspended; its lookup ends in 404 exactly when the id is not in
\* store, and otherwise in the row (read) or in the write; its write is answered
\* 200 and changes the store as the body says; a list gives the answer the same
\* list gave another requester on the same store.  Reads never change the store.
OutcomeBlindToIdentity ==
    [][/\ \A rid \in DOMAIN inflight' \cup {x.rid : x \in last'} :
            (rid = received + 1 /\ After(rid).ran /\ After(rid).req.route # "POST /") =>
                LET y == After(rid) IN
                /\ tasks' = tasks
                /\ IF y.req.route = "GET /" THEN rid \in DOMAIN inflight'
                   ELSE IF ~LeadingInteger(y.req.params.id) THEN y.res.status = 400
                   ELSE IF y.req.route = "PUT /:id" /\ y.req.body \in BadUpdateBodies
                        THEN y.res.status = 400
                   ELSE rid \in DOMAIN inflight'
       /\ \A rid \in DOMAIN inflight :
            (/\ inflight[rid].req.route # "POST /"
             /\ (rid \notin DOMAIN inflight' \/ inflight'[rid] # inflight[rid])) =>
                LET a  == inflight[rid]
                    b  == After(rid)
                    id == a.req.params.id
                IN
                IF a.req.route = "GET /"
                    THEN /\ tasks' = tasks
                         /\ a.req.query = <<>>
                                => b.res.status = 200 /\ Range(b.res.body.tasks) = tasks
                         /\ \A x \in last :
                                (x.ran /\ x.req.route = "GET /"
                                    /\ x.req.query = a.req.query)
                                => /\ b.res.status = x.res.status
                                   /\ b.res.status = 200 =>
                                        Range(b.res.body.tasks) = Range(x.res.body.tasks)
                ELSE IF a.queries = <<>>
                    THEN /\ tasks' = tasks
                         /\ IF ~Present(tasks, id) THEN b.res = NotFound
                            ELSE IF a.req.route = "GET /:id"
                                THEN /\ b.res.status = 200
                                     /\ b.res.body.task \in tasks
                                     /\ Present({b.res.body.task}, id)
                            ELSE rid \in DOMAIN inflight'
                ELSE /\ b.res.status = 200
                     /\ Written(a.req.route, id, a.req.body)]_vars

\* A manager who did not create the task deleted it, and was answered 200.
IdentityWitness ==
    \E x \in last :
        /\ x.req.route = "DELETE /:id"
        /\ x.res.status = 200
        /\ x.user.val.role = "manager"
        /\ x.result # {}
        /\ \A r \in x.result : r.createdBy # x.user.val.id
        /\ tasks = {}

\* C16: with every timestamp read from the one clock, no write to a stored task
\* leaves its updatedAt less than the value it replaced.
UpdatedAtNeverDecreases ==
    [][\A r \in tasks : \A q \in tasks' : q.id = r.id => q.updatedAt >= r.updatedAt]_vars

=============================================================================
